---- MODULE Spec2Model ----
(***************************************************************************)
(* Model of the infix calculator: whitespace stripping, validation of the  *)
(* infix string, shunting-yard conversion to Reverse Polish Notation and   *)
(* evaluation of the postfix token sequence.                               *)
(*                                                                         *)
(* Characters are one-character strings, a Rust String is a sequence of    *)
(* them, a Vec is a sequence whose last element is the top of the stack.   *)
(***************************************************************************)
EXTENDS Integers, Sequences, FiniteSets, TLC

\* Longest raw input drawn by Init.
MaxLen == 5
\* Largest magnitude of the operands handed directly to calculate by InitCalc.
MaxOperand == 3
\* Longest text handed directly to parse_number by InitParse.
MaxText == 4

I32Max == 2147483647
I32Min == (0 - 2147483647) - 1

None == "None"
OK == "Ok"
InvalidInput == "InvalidInput"
ParenthesesNotMatching == "ParenthesesNotMatching"
Panic == "Invalid RPN"

\* Characters the inputs are drawn from: two digits, the six symbols, one
\* whitespace character and one unsupported character.
Alphabet == {"1", "2", "+", "-", "*", "/", "(", ")", " ", "x"}
\* Characters of the texts handed to parse_number.
TextAlphabet == {"1", "2", "-", "+", "x"}

Whitespace == {" "}
AsciiDigits == {"0", "1", "2", "3", "4", "5", "6", "7", "8", "9"}

Strings(S, n) == UNION {[1..k -> S] : k \in 0..n}

is_ascii_digit(c) == c \in AsciiDigits
\* Within the ASCII range char::is_numeric and char::is_ascii_digit agree.
is_numeric(c) == c \in AsciiDigits

DigitVal(c) ==
    CASE c = "0" -> 0 [] c = "1" -> 1 [] c = "2" -> 2 [] c = "3" -> 3
      [] c = "4" -> 4 [] c = "5" -> 5 [] c = "6" -> 6 [] c = "7" -> 7
      [] c = "8" -> 8 [] c = "9" -> 9

\* Accumulation of a digit run as i32 with checked arithmetic: the
\* magnitude for a non-negative number (-1 when it exceeds i32::MAX), the
\* negated magnitude for a negative one (1 when it is below i32::MIN).
RECURSIVE DigitsValue(_)
DigitsValue(s) ==
    IF s = <<>> THEN 0
    ELSE LET h == DigitsValue(SubSeq(s, 1, Len(s) - 1))
             d == DigitVal(s[Len(s)])
         IN  IF h < 0 \/ h > 214748364 \/ (h = 214748364 /\ d > 7) THEN 0 - 1
             ELSE 10 * h + d

RECURSIVE NegDigitsValue(_)
NegDigitsValue(s) ==
    IF s = <<>> THEN 0
    ELSE LET h == NegDigitsValue(SubSeq(s, 1, Len(s) - 1))
             d == DigitVal(s[Len(s)])
         IN  IF h > 0 \/ h < 0 - 214748364 \/ (h = 0 - 214748364 /\ d > 8) THEN 1
             ELSE 10 * h - d

\* str::parse::<i32>: an optional single '+' or '-', then one or more ASCII
\* digits, the value within the range of i32.
ParseI32(s) ==
    LET signed == s # <<>> /\ s[1] \in {"+", "-"}
        negative == signed /\ s[1] = "-"
        digits == IF signed THEN Tail(s) ELSE s
        wellFormed == digits # <<>> /\ \A k \in 1..Len(digits) : is_ascii_digit(digits[k])
        val == IF negative THEN NegDigitsValue(digits) ELSE DigitsValue(digits)
    IN  IF wellFormed /\ (IF negative THEN val <= 0 ELSE val >= 0)
        THEN [ok |-> TRUE, value |-> val]
        ELSE [ok |-> FALSE, value |-> 0]

\* Mutant of split_whitespace: only leading and trailing whitespace is
\* removed (str::trim).
RECURSIVE TrimStart(_)
TrimStart(s) == IF s # <<>> /\ s[1] \in Whitespace THEN TrimStart(Tail(s)) ELSE s
RECURSIVE TrimEnd(_)
TrimEnd(s) ==
    IF s # <<>> /\ s[Len(s)] \in Whitespace THEN TrimEnd(SubSeq(s, 1, Len(s) - 1)) ELSE s
split_whitespace_trim_only(s) == TrimEnd(TrimStart(s))

\* input.split_whitespace().collect()
split_whitespace(s) == SelectSeq(s, LAMBDA c : c \notin Whitespace)

(***************************************************************************)
(* Operator and Token                                                      *)
(***************************************************************************)
Add == "Add"
Substract == "Substract"
Divide == "Divide"
Multiply == "Multiply"
LeftParenthesis == "LeftParenthesis"
RightParenthesis == "RightParenthesis"

OperatorTryFrom(value) ==
    CASE value = "(" -> [ok |-> TRUE, op |-> LeftParenthesis]
      [] value = ")" -> [ok |-> TRUE, op |-> RightParenthesis]
      [] value = "+" -> [ok |-> TRUE, op |-> Add]
      [] value = "-" -> [ok |-> TRUE, op |-> Substract]
      [] value = "*" -> [ok |-> TRUE, op |-> Multiply]
      [] value = "/" -> [ok |-> TRUE, op |-> Divide]
      [] OTHER -> [ok |-> FALSE, op |-> None]

precedence(op) ==
    CASE op = Add -> 1
      [] op = Substract -> 1
      [] op = Divide -> 2
      [] op = Multiply -> 2
      [] op = LeftParenthesis -> 0
      [] op = RightParenthesis -> 0

Operand(n) == [kind |-> "Operand", value |-> n, op |-> None]
OperatorToken(o) == [kind |-> "Operator", value |-> 0, op |-> o]

(***************************************************************************)
(* Functions on the raw input                                              *)
(***************************************************************************)
parse_number(text) ==
    LET hasMinus == \E k \in 1..Len(text) : text[k] = "-"
        value == IF hasMinus THEN Tail(text) ELSE text
        multiplicator == IF hasMinus THEN 0 - 1 ELSE 1
        parsed == ParseI32(value)
    IN  IF value = <<>> THEN [ok |-> FALSE, value |-> 0, err |-> InvalidInput]
        ELSE IF ~parsed.ok THEN [ok |-> FALSE, value |-> 0, err |-> InvalidInput]
        \* i32 multiplication overflow: the debug build panics, the release
        \* build wraps; reported as neither Ok nor a ParsingError.
        ELSE IF parsed.value = I32Min /\ multiplicator < 0
        THEN [ok |-> FALSE, value |-> 0, err |-> "Overflow"]
        ELSE [ok |-> TRUE, value |-> parsed.value * multiplicator, err |-> None]

RECURSIVE ParenthesesScan(_, _, _)
ParenthesesScan(value, k, parentheses_sum) ==
    IF k > Len(value)
    THEN IF parentheses_sum # 0 THEN ParenthesesNotMatching ELSE OK
    ELSE IF value[k] \notin {"(", ")"}
    THEN ParenthesesScan(value, k + 1, parentheses_sum)
    ELSE LET sum == IF value[k] = "(" THEN parentheses_sum + 1 ELSE parentheses_sum - 1
         IN  IF sum < 0 THEN ParenthesesNotMatching
             ELSE ParenthesesScan(value, k + 1, sum)

\* Mutant of evaluate_parenthes_match: the final `parentheses_sum != 0` test
\* is missing.
evaluate_parenthes_match_no_final_test(value) ==
    IF \E k \in 1..Len(value) :
          Cardinality({j \in 1..k : value[j] = ")"}) > Cardinality({j \in 1..k : value[j] = "("})
    THEN ParenthesesNotMatching ELSE OK

evaluate_parenthes_match(value) == ParenthesesScan(value, 1, 0)

check_char_validity(c) ==
    LET valid_chars_except_for_numbers == {")", "(", "+", "*", "-", "/"}
    IN  IF ~is_ascii_digit(c) /\ c \notin valid_chars_except_for_numbers
        THEN InvalidInput ELSE OK

\* The for loop of validate_infix_notation. The first iteration leaves the
\* loop body through `continue` before previous_char_option is assigned, and
\* so does every later one.
RECURSIVE AdjacencyScan(_, _, _)
AdjacencyScan(input, k, previous_char_option) ==
    LET chars_which_come_after_digit_or_closing_parenthesis == {")", "+", "*", "-", "/"}
        current_char == input[k]
        previous_char == previous_char_option
    IN  IF k > Len(input) THEN OK
        ELSE IF check_char_validity(current_char) # OK THEN InvalidInput
        ELSE IF previous_char_option = None
        THEN AdjacencyScan(input, k + 1, previous_char_option)
        ELSE IF (~is_ascii_digit(previous_char) \/ previous_char # ")")
                /\ current_char \in chars_which_come_after_digit_or_closing_parenthesis
        THEN InvalidInput
        ELSE IF is_numeric(current_char) /\ previous_char = ")" THEN InvalidInput
        ELSE IF current_char = "(" /\ previous_char \in {")", "+", "-", "*", "/"}
        THEN InvalidInput
        ELSE IF ~is_numeric(previous_char) /\ previous_char # ")" THEN InvalidInput
        ELSE AdjacencyScan(input, k + 1, current_char)

\* Mutant of validate_infix_notation: the test of the last character is
\* missing.
validate_infix_notation_no_end_test(input) ==
    IF input = <<>> THEN InvalidInput
    ELSE IF input[1] \in {")", "+", "*", "/"} THEN InvalidInput
    ELSE IF Len(input) = 1 /\ is_numeric(input[Len(input)]) THEN InvalidInput
    ELSE IF evaluate_parenthes_match(input) # OK THEN evaluate_parenthes_match(input)
    ELSE AdjacencyScan(input, 1, None)

\* Mutant of validate_infix_notation: the parentheses are matched before the
\* first and last characters are tested.
validate_infix_notation_match_first(input) ==
    IF input = <<>> THEN InvalidInput
    ELSE IF evaluate_parenthes_match(input) # OK THEN evaluate_parenthes_match(input)
    ELSE IF input[Len(input)] \in {"(", "-", "+", "*", "/"} THEN InvalidInput
    ELSE IF input[1] \in {")", "+", "*", "/"} THEN InvalidInput
    ELSE IF Len(input) = 1 /\ is_numeric(input[Len(input)]) THEN InvalidInput
    ELSE AdjacencyScan(input, 1, None)

\* Mutant of validate_infix_notation: the single-digit test is missing.
validate_infix_notation_no_single_digit_test(input) ==
    IF input = <<>> THEN InvalidInput
    ELSE IF input[Len(input)] \in {"(", "-", "+", "*", "/"} THEN InvalidInput
    ELSE IF input[1] \in {")", "+", "*", "/"} THEN InvalidInput
    ELSE IF evaluate_parenthes_match(input) # OK THEN evaluate_parenthes_match(input)
    ELSE AdjacencyScan(input, 1, None)

validate_infix_notation(input) ==
    IF input = <<>> THEN InvalidInput
    ELSE IF input[Len(input)] \in {"(", "-", "+", "*", "/"} THEN InvalidInput
    ELSE IF input[1] \in {")", "+", "*", "/"} THEN InvalidInput
    ELSE IF Len(input) = 1 /\ is_numeric(input[Len(input)]) THEN InvalidInput
    ELSE IF evaluate_parenthes_match(input) # OK THEN evaluate_parenthes_match(input)
    ELSE AdjacencyScan(input, 1, None)

\* Mutant of check_operator_char_order: an operator or ')' is allowed after
\* any previous character.
check_operator_char_order_any_previous(current_char, previous_char) ==
    IF previous_char = None /\ ~is_numeric(current_char) /\ current_char # "("
    THEN InvalidInput
    ELSE IF current_char = "("
    THEN IF previous_char # None /\ (previous_char = ")" \/ is_numeric(previous_char))
         THEN InvalidInput ELSE OK
    ELSE IF previous_char # None THEN OK
    ELSE InvalidInput

check_operator_char_order(current_char, previous_char) ==
    IF previous_char = None /\ ~is_numeric(current_char) /\ current_char # "("
    THEN InvalidInput
    ELSE IF current_char = "("
    THEN IF previous_char # None /\ (previous_char = ")" \/ is_numeric(previous_char))
         THEN InvalidInput ELSE OK
    ELSE IF previous_char # None
    THEN IF ~is_numeric(previous_char) /\ previous_char # ")" THEN InvalidInput ELSE OK
    ELSE InvalidInput

is_minus_unary_operator(current_char, previous_char) ==
    IF current_char # "-" THEN FALSE
    ELSE IF previous_char = None THEN TRUE
    ELSE IF is_numeric(previous_char) \/ previous_char = ")" THEN FALSE
    ELSE TRUE

(***************************************************************************)
(* f32 values. A finite non-zero value is the reduced fraction n/d, d > 0; *)
(* the other IEEE-754 values are +0 = 0/1, -0 = 0/-1, +inf = 1/0,          *)
(* -inf = -1/0 and NaN = 0/0. Rounding and the finite range of f32 are not *)
(* modelled: the values of the inputs drawn here are exact fractions.      *)
(***************************************************************************)
Abs(x) == IF x < 0 THEN 0 - x ELSE x

RECURSIVE GCD(_, _)
GCD(a, b) == IF b = 0 THEN a ELSE GCD(b, a % b)

NaN == [n |-> 0, d |-> 0]
Inf(s) == [n |-> s, d |-> 0]
Zero(s) == [n |-> 0, d |-> s]
IsNaN(v) == v.n = 0 /\ v.d = 0
IsInf(v) == v.n # 0 /\ v.d = 0
IsZero(v) == v.n = 0 /\ v.d # 0
Sgn(v) == IF v.n > 0 THEN 1 ELSE IF v.n < 0 THEN 0 - 1 ELSE IF v.d < 0 THEN 0 - 1 ELSE 1

\* The fraction n/d, n # 0 and d # 0, in lowest terms with d > 0.
Fraction(n, d) ==
    LET g == GCD(Abs(n), Abs(d))
        s == IF d < 0 THEN 0 - 1 ELSE 1
    IN  [n |-> (s * n) \div g, d |-> Abs(d) \div g]

\* `*value as f32`
FromI32(n) == IF n = 0 THEN Zero(1) ELSE [n |-> n, d |-> 1]

FNeg(a) == [n |-> 0 - a.n, d |-> IF a.n = 0 THEN 0 - a.d ELSE a.d]

FAdd(a, b) ==
    IF IsNaN(a) \/ IsNaN(b) THEN NaN
    ELSE IF IsInf(a) /\ IsInf(b) THEN (IF a.n = b.n THEN a ELSE NaN)
    ELSE IF IsInf(a) THEN a
    ELSE IF IsInf(b) THEN b
    ELSE IF IsZero(a) /\ IsZero(b) THEN (IF a.d < 0 /\ b.d < 0 THEN Zero(0 - 1) ELSE Zero(1))
    ELSE IF IsZero(a) THEN b
    ELSE IF IsZero(b) THEN a
    ELSE LET n == a.n * b.d + b.n * a.d
         IN  IF n = 0 THEN Zero(1) ELSE Fraction(n, a.d * b.d)

FSub(a, b) == FAdd(a, FNeg(b))

FMul(a, b) ==
    IF IsNaN(a) \/ IsNaN(b) THEN NaN
    ELSE IF (IsInf(a) /\ IsZero(b)) \/ (IsZero(a) /\ IsInf(b)) THEN NaN
    ELSE IF IsInf(a) \/ IsInf(b) THEN Inf(Sgn(a) * Sgn(b))
    ELSE IF IsZero(a) \/ IsZero(b) THEN Zero(Sgn(a) * Sgn(b))
    ELSE Fraction(a.n * b.n, a.d * b.d)

FDiv(a, b) ==
    IF IsNaN(a) \/ IsNaN(b) THEN NaN
    ELSE IF (IsInf(a) /\ IsInf(b)) \/ (IsZero(a) /\ IsZero(b)) THEN NaN
    ELSE IF IsInf(a) \/ IsZero(b) THEN Inf(Sgn(a) * Sgn(b))
    ELSE IF IsInf(b) \/ IsZero(a) THEN Zero(Sgn(a) * Sgn(b))
    ELSE Fraction(a.n * b.d, a.d * b.n)

\* Mutant of ApplyOperator: the operands of '-' and '/' are taken in pop
\* order.
ApplyOperator_pop_order(operator, value_1, value_2) ==
    CASE operator = Add -> FAdd(value_1, value_2)
      [] operator = Substract -> FSub(value_1, value_2)
      [] operator = Multiply -> FMul(value_1, value_2)
      [] operator = Divide -> FDiv(value_1, value_2)

\* The match of calculate: value_1 is popped first, value_2 second.
ApplyOperator(operator, value_1, value_2) ==
    CASE operator = Add -> FAdd(value_1, value_2)
      [] operator = Substract -> FSub(value_2, value_1)
      [] operator = Multiply -> FMul(value_1, value_2)
      [] operator = Divide -> FDiv(value_2, value_1)

(***************************************************************************)
(* Helpers of the conversion loop                                          *)
(***************************************************************************)
Push(stack, x) == Append(stack, x)
Last(stack) == stack[Len(stack)]
Pop(stack) == SubSeq(stack, 1, Len(stack) - 1)

\* Mutant of push_number_to_rpn_container: parsing_number is not cleared.
push_number_to_rpn_container_no_clear(rpn_container, parsing_number) ==
    LET number == parse_number(parsing_number)
    IN  IF parsing_number = <<>>
        THEN [res |-> OK, rpn |-> rpn_container, num |-> parsing_number]
        ELSE IF ~number.ok
        THEN [res |-> number.err, rpn |-> rpn_container, num |-> parsing_number]
        ELSE [res |-> OK, rpn |-> Append(rpn_container, Operand(number.value)),
              num |-> parsing_number]

push_number_to_rpn_container(rpn_container, parsing_number) ==
    LET number == parse_number(parsing_number)
    IN  IF parsing_number = <<>>
        THEN [res |-> OK, rpn |-> rpn_container, num |-> parsing_number]
        ELSE IF ~number.ok
        THEN [res |-> number.err, rpn |-> rpn_container, num |-> parsing_number]
        ELSE [res |-> OK, rpn |-> Push(rpn_container, Operand(number.value)), num |-> <<>>]

\* Mutant of PopUntilLeftParenthesis: the loop stops at the '(' without
\* popping it.
RECURSIVE PopUntilLeftParenthesis_keeps_it(_, _)
PopUntilLeftParenthesis_keeps_it(stack, rpn) ==
    IF stack = <<>> THEN [stack |-> stack, rpn |-> rpn]
    ELSE IF stack[Len(stack)] = LeftParenthesis THEN [stack |-> stack, rpn |-> rpn]
    ELSE PopUntilLeftParenthesis_keeps_it(SubSeq(stack, 1, Len(stack) - 1),
                                          Append(rpn, OperatorToken(stack[Len(stack)])))

\* `while let Some(op) = operator_stack.pop()` of the ')' branch: operators
\* go to the output until a '(' has been popped or the stack is empty.
RECURSIVE PopUntilLeftParenthesis(_, _)
PopUntilLeftParenthesis(stack, rpn) ==
    IF stack = <<>> THEN [stack |-> stack, rpn |-> rpn]
    ELSE IF Last(stack) = LeftParenthesis THEN [stack |-> Pop(stack), rpn |-> rpn]
    ELSE PopUntilLeftParenthesis(Pop(stack), Push(rpn, OperatorToken(Last(stack))))

\* Mutant of PopWhilePrecedence: the comparison is `<` instead of `<=`, so
\* an operator of equal precedence stays on the stack.
RECURSIVE PopWhilePrecedence_strict(_, _, _)
PopWhilePrecedence_strict(stack, rpn, current_operator) ==
    IF stack = <<>> THEN [stack |-> stack, rpn |-> rpn]
    ELSE IF precedence(current_operator) < precedence(stack[Len(stack)])
    THEN PopWhilePrecedence_strict(SubSeq(stack, 1, Len(stack) - 1),
                                   Append(rpn, OperatorToken(stack[Len(stack)])),
                                   current_operator)
    ELSE [stack |-> stack, rpn |-> rpn]

\* The while loop of the precedence branch: the popped operator goes to the
\* output while current_operator.precedence() <= its precedence, else it is
\* pushed back and the loop ends.
RECURSIVE PopWhilePrecedence(_, _, _)
PopWhilePrecedence(stack, rpn, current_operator) ==
    IF stack = <<>> THEN [stack |-> stack, rpn |-> rpn]
    ELSE IF precedence(current_operator) <= precedence(Last(stack))
    THEN PopWhilePrecedence(Pop(stack), Push(rpn, OperatorToken(Last(stack))), current_operator)
    ELSE [stack |-> stack, rpn |-> rpn]

\* Mutant of ShuntOperator: the operator is pushed when its precedence is
\* greater than or equal to that of the top of the stack.
ShuntOperator_push_on_equal(stack, rpn, current_operator) ==
    IF current_operator = LeftParenthesis
    THEN [stack |-> Push(stack, current_operator), rpn |-> rpn]
    ELSE IF stack = <<>>
    THEN [stack |-> Push(stack, current_operator), rpn |-> rpn]
    ELSE IF current_operator = RightParenthesis
    THEN PopUntilLeftParenthesis(stack, rpn)
    ELSE IF Last(stack) = LeftParenthesis
    THEN [stack |-> Push(stack, current_operator), rpn |-> rpn]
    ELSE IF precedence(current_operator) >= precedence(Last(stack))
    THEN [stack |-> Push(stack, current_operator), rpn |-> rpn]
    ELSE LET popped == PopWhilePrecedence(stack, rpn, current_operator)
         IN  [stack |-> Push(popped.stack, current_operator), rpn |-> popped.rpn]

\* Lines 66-110: what one operator or parenthesis does to the two buffers.
ShuntOperator(stack, rpn, current_operator) ==
    IF current_operator = LeftParenthesis
    THEN [stack |-> Push(stack, current_operator), rpn |-> rpn]
    ELSE IF stack = <<>>
    THEN [stack |-> Push(stack, current_operator), rpn |-> rpn]
    ELSE IF current_operator = RightParenthesis
    THEN PopUntilLeftParenthesis(stack, rpn)
    ELSE IF Last(stack) = LeftParenthesis
    THEN [stack |-> Push(stack, current_operator), rpn |-> rpn]
    ELSE IF precedence(current_operator) > precedence(Last(stack))
    THEN [stack |-> Push(stack, current_operator), rpn |-> rpn]
    ELSE LET popped == PopWhilePrecedence(stack, rpn, current_operator)
         IN  [stack |-> Push(popped.stack, current_operator), rpn |-> popped.rpn]

\* Lines 115-117: every operator left on the stack goes to the output.
RECURSIVE DrainStack(_, _)
DrainStack(stack, rpn) ==
    IF stack = <<>> THEN rpn
    ELSE DrainStack(Pop(stack), Push(rpn, OperatorToken(Last(stack))))

(***************************************************************************)
(* try_from and calculate as functions of their argument                   *)
(***************************************************************************)
\* The for loop of try_from from character k on, then lines 113-121.
\* l holds the local variables of try_from.
RECURSIVE ConvertLoop(_, _, _)
ConvertLoop(input, k, l) ==
    IF k > Len(input)
    THEN LET flushed == push_number_to_rpn_container(l.rpn, l.num)
         IN  IF flushed.res # OK THEN [res |-> flushed.res, tokens |-> <<>>]
             ELSE [res |-> OK, tokens |-> DrainStack(l.stack, flushed.rpn)]
    ELSE LET current_char == input[k]
             flushed == push_number_to_rpn_container(l.rpn, l.num)
             order == check_operator_char_order(current_char, l.prev)
             converted == OperatorTryFrom(current_char)
             shunted == ShuntOperator(l.stack, flushed.rpn, converted.op)
         IN  IF is_minus_unary_operator(current_char, l.prev)
             THEN ConvertLoop(input, k + 1, [l EXCEPT !.neg = TRUE])
             ELSE IF is_numeric(current_char)
             THEN ConvertLoop(input, k + 1,
                     [l EXCEPT !.num = Append(IF l.neg THEN Append(l.num, "-") ELSE l.num,
                                              current_char),
                               !.neg = FALSE,
                               !.prev = current_char])
             ELSE IF flushed.res # OK THEN [res |-> flushed.res, tokens |-> <<>>]
             ELSE IF order # OK THEN [res |-> order, tokens |-> <<>>]
             ELSE IF ~converted.ok THEN [res |-> InvalidInput, tokens |-> <<>>]
             ELSE ConvertLoop(input, k + 1,
                     [l EXCEPT !.num = flushed.num,
                               !.prev = current_char,
                               !.stack = shunted.stack,
                               !.rpn = shunted.rpn])

\* ReversePolishNotation::try_from(input): res is Ok or the ParsingError.
try_from(text) ==
    LET input == split_whitespace(text)
        valid == validate_infix_notation(input)
    IN  IF valid # OK THEN [res |-> valid, tokens |-> <<>>]
        ELSE ConvertLoop(input, 1, [num |-> <<>>, prev |-> None, stack |-> <<>>,
                                    rpn |-> <<>>, neg |-> FALSE])

\* The scan of calculate from token k on with the given value stack.
RECURSIVE CalculateLoop(_, _, _)
CalculateLoop(toks, k, stack) ==
    IF k > Len(toks)
    THEN IF stack = <<>> THEN [ok |-> FALSE, value |-> NaN]
         ELSE [ok |-> TRUE, value |-> Last(stack)]
    ELSE IF toks[k].kind = "Operand"
    THEN CalculateLoop(toks, k + 1, Push(stack, FromI32(toks[k].value)))
    ELSE IF Len(stack) < 2 \/ toks[k].op \in {LeftParenthesis, RightParenthesis}
    THEN [ok |-> FALSE, value |-> NaN]
    ELSE CalculateLoop(toks, k + 1,
            Push(Pop(Pop(stack)), ApplyOperator(toks[k].op, Last(stack), Last(Pop(stack)))))

\* calculate(): ok is FALSE when the scan panics.
calculate(toks) == CalculateLoop(toks, 1, <<>>)

(***************************************************************************)
(* State                                                                   *)
(***************************************************************************)
VARIABLES
    pc,                          \* position of the caller in the pipeline
    raw,                         \* the String handed to try_from / parse_number
    input,                       \* the whitespace-stripped input
    pos,                         \* index of the next character of input.chars()
    parsing_number,
    previous_char,
    operator_stack,
    rpn_container,
    is_next_expression_negative,
    outcome,                     \* what try_from returned: None, Ok or the error
    tokens,                      \* ReversePolishNotation.tokens
    tpos,                        \* index of the next token of self.tokens.iter()
    value_stack,
    result,                      \* what calculate returned, or Panic
    parsed                       \* what a direct parse_number call returned

vars == <<pc, raw, input, pos, parsing_number, previous_char, operator_stack,
          rpn_container, is_next_expression_negative, outcome, tokens, tpos,
          value_stack, result, parsed>>

convVars == <<parsing_number, previous_char, operator_stack, rpn_container,
              is_next_expression_negative>>
calcVars == <<tokens, tpos, value_stack, result>>

\* calculate has not returned / parse_number has not been called.
NoResult == [status |-> None, value |-> NaN]
NotParsed == [ok |-> FALSE, value |-> 0, err |-> None]

InitLocals ==
    /\ input = <<>>
    /\ pos = 1
    /\ parsing_number = <<>>
    /\ previous_char = None
    /\ operator_stack = <<>>
    /\ rpn_container = <<>>
    /\ is_next_expression_negative = FALSE
    /\ outcome = None
    /\ tokens = <<>>
    /\ tpos = 1
    /\ value_stack = <<>>
    /\ result = NoResult
    /\ parsed = NotParsed

Init ==
    /\ pc = "start"
    /\ raw \in Strings(Alphabet, MaxLen)
    /\ InitLocals

\* Lines 37-43: strip the whitespace, validate, set up the buffers.
TryFromEntry ==
    /\ pc = "start"
    /\ LET stripped == split_whitespace(raw)
           valid == validate_infix_notation(stripped)
       IN  /\ input' = stripped
           /\ IF valid # OK
              THEN pc' = "err" /\ outcome' = valid
              ELSE pc' = "scan" /\ outcome' = outcome
    /\ UNCHANGED <<raw, pos, convVars, calcVars, parsed>>

\* Lines 46-49: a unary minus only sets the flag.
ScanUnaryMinus ==
    /\ pc = "scan"
    /\ pos <= Len(input)
    /\ is_minus_unary_operator(input[pos], previous_char)
    /\ is_next_expression_negative' = TRUE
    /\ pos' = pos + 1
    /\ UNCHANGED <<pc, raw, input, parsing_number, previous_char, operator_stack,
                   rpn_container, outcome, calcVars, parsed>>

\* Lines 51-60: a digit extends the pending number.
ScanDigit ==
    /\ pc = "scan"
    /\ pos <= Len(input)
    /\ ~is_minus_unary_operator(input[pos], previous_char)
    /\ is_numeric(input[pos])
    /\ parsing_number' = Append(IF is_next_expression_negative
                                THEN Append(parsing_number, "-")
                                ELSE parsing_number, input[pos])
    /\ is_next_expression_negative' = FALSE
    /\ previous_char' = input[pos]
    /\ pos' = pos + 1
    /\ UNCHANGED <<pc, raw, input, operator_stack, rpn_container, outcome,
                   calcVars, parsed>>

\* Lines 62-110: any other character flushes the pending number, is checked
\* against the previous character and goes through the operator stack.
ScanOperator ==
    /\ pc = "scan"
    /\ pos <= Len(input)
    /\ ~is_minus_unary_operator(input[pos], previous_char)
    /\ ~is_numeric(input[pos])
    /\ LET current_char == input[pos]
           flushed == push_number_to_rpn_container(rpn_container, parsing_number)
           order == check_operator_char_order(current_char, previous_char)
           converted == OperatorTryFrom(current_char)
           shunted == ShuntOperator(operator_stack, flushed.rpn, converted.op)
       IN  /\ parsing_number' = flushed.num
           /\ IF flushed.res # OK
              THEN /\ pc' = "err" /\ outcome' = flushed.res
                   /\ rpn_container' = flushed.rpn
                   /\ UNCHANGED <<previous_char, operator_stack, pos>>
              ELSE IF order # OK
              THEN /\ pc' = "err" /\ outcome' = order
                   /\ rpn_container' = flushed.rpn
                   /\ UNCHANGED <<previous_char, operator_stack, pos>>
              ELSE IF ~converted.ok
              THEN /\ pc' = "err" /\ outcome' = InvalidInput
                   /\ rpn_container' = flushed.rpn
                   /\ previous_char' = current_char
                   /\ UNCHANGED <<operator_stack, pos>>
              ELSE /\ pc' = pc /\ outcome' = outcome
                   /\ previous_char' = current_char
                   /\ operator_stack' = shunted.stack
                   /\ rpn_container' = shunted.rpn
                   /\ pos' = pos + 1
    /\ UNCHANGED <<raw, input, is_next_expression_negative, calcVars, parsed>>

\* Lines 113-121: flush the last number, drain the stack, return Ok.
TryFromFinish ==
    /\ pc = "scan"
    /\ pos > Len(input)
    /\ LET flushed == push_number_to_rpn_container(rpn_container, parsing_number)
       IN  /\ parsing_number' = flushed.num
           /\ IF flushed.res # OK
              THEN /\ pc' = "err" /\ outcome' = flushed.res
                   /\ rpn_container' = flushed.rpn
                   /\ UNCHANGED <<operator_stack, tokens>>
              ELSE /\ pc' = "built" /\ outcome' = OK
                   /\ rpn_container' = DrainStack(operator_stack, flushed.rpn)
                   /\ operator_stack' = <<>>
                   /\ tokens' = DrainStack(operator_stack, flushed.rpn)
    /\ UNCHANGED <<raw, input, pos, previous_char, is_next_expression_negative,
                   tpos, value_stack, result, parsed>>

\* Line 130: an Operand is pushed on the value stack.
CalculateOperand ==
    /\ pc = "built"
    /\ tpos <= Len(tokens)
    /\ tokens[tpos].kind = "Operand"
    /\ value_stack' = Push(value_stack, FromI32(tokens[tpos].value))
    /\ tpos' = tpos + 1
    /\ UNCHANGED <<pc, raw, input, pos, convVars, outcome, tokens, result, parsed>>

\* Lines 131-143: an Operator pops two values and pushes the result; a
\* missing value or a parenthesis token panics.
CalculateOperator ==
    /\ pc = "built"
    /\ tpos <= Len(tokens)
    /\ tokens[tpos].kind = "Operator"
    /\ IF Len(value_stack) < 2 \/ tokens[tpos].op \in {LeftParenthesis, RightParenthesis}
       THEN /\ pc' = "panic" /\ result' = [status |-> Panic, value |-> NaN]
            /\ value_stack' = IF Len(value_stack) < 2 THEN <<>> ELSE Pop(Pop(value_stack))
            /\ tpos' = tpos
       ELSE /\ pc' = pc /\ result' = result
            /\ value_stack' = Push(Pop(Pop(value_stack)),
                                   ApplyOperator(tokens[tpos].op, Last(value_stack),
                                                 Last(Pop(value_stack))))
            /\ tpos' = tpos + 1
    /\ UNCHANGED <<raw, input, pos, convVars, outcome, tokens, parsed>>

\* Line 147: the top of the value stack is the result.
CalculateReturn ==
    /\ pc = "built"
    /\ tpos > Len(tokens)
    /\ IF value_stack = <<>>
       THEN /\ pc' = "panic" /\ result' = [status |-> Panic, value |-> NaN]
            /\ value_stack' = value_stack
       ELSE /\ pc' = "done" /\ result' = [status |-> "Value", value |-> Last(value_stack)]
            /\ value_stack' = Pop(value_stack)
    /\ UNCHANGED <<raw, input, pos, convVars, outcome, tokens, tpos, parsed>>

Next ==
    \/ TryFromEntry
    \/ ScanUnaryMinus
    \/ ScanDigit
    \/ ScanOperator
    \/ TryFromFinish
    \/ CalculateOperand
    \/ CalculateOperator
    \/ CalculateReturn

Spec == Init /\ [][Next]_vars

(***************************************************************************)
(* parse_number called on its own                                          *)
(***************************************************************************)
InitParse ==
    /\ pc = "text"
    /\ raw \in Strings(TextAlphabet, MaxText)
    /\ InitLocals

ParseNumberCall ==
    /\ pc = "text"
    /\ pc' = "parsed"
    /\ parsed' = parse_number(raw)
    /\ UNCHANGED <<raw, input, pos, convVars, outcome, calcVars>>

NextParse == ParseNumberCall

SpecParse == InitParse /\ [][NextParse]_vars

(***************************************************************************)
(* Standard infix arithmetic, by the grammar                               *)
(*   expr   ::= term   { ('+' | '-') term }      left to right             *)
(*   term   ::= factor { ('*' | '/') factor }    left to right             *)
(*   factor ::= '-' factor | digits | '(' expr ')'                         *)
(* Each operator returns [ok, value, next]: next is the index after the    *)
(* phrase.                                                                 *)
(***************************************************************************)
RefFail == [ok |-> FALSE, value |-> NaN, next |-> 0]

RECURSIVE DigitRunEnd(_, _)
DigitRunEnd(s, i) ==
    IF i <= Len(s) /\ is_ascii_digit(s[i]) THEN DigitRunEnd(s, i + 1) ELSE i

RECURSIVE RefExpr(_, _)
RECURSIVE RefExprRest(_, _, _)
RECURSIVE RefTerm(_, _)
RECURSIVE RefTermRest(_, _, _)
RECURSIVE RefFactor(_, _)

RefFactor(s, i) ==
    IF i > Len(s) THEN RefFail
    ELSE IF s[i] = "-"
    THEN LET f == RefFactor(s, i + 1)
         IN  IF f.ok THEN [f EXCEPT !.value = FNeg(f.value)] ELSE RefFail
    ELSE IF is_ascii_digit(s[i])
    THEN LET e == DigitRunEnd(s, i)
         IN  [ok |-> TRUE, value |-> FromI32(DigitsValue(SubSeq(s, i, e - 1))), next |-> e]
    ELSE IF s[i] = "("
    THEN LET e == RefExpr(s, i + 1)
         IN  IF e.ok /\ e.next <= Len(s) /\ s[e.next] = ")"
             THEN [e EXCEPT !.next = e.next + 1] ELSE RefFail
    ELSE RefFail

RefTermRest(s, lhs, i) ==
    IF i <= Len(s) /\ s[i] \in {"*", "/"}
    THEN LET f == RefFactor(s, i + 1)
         IN  IF ~f.ok THEN RefFail
             ELSE RefTermRest(s, IF s[i] = "*" THEN FMul(lhs, f.value)
                                 ELSE FDiv(lhs, f.value), f.next)
    ELSE [ok |-> TRUE, value |-> lhs, next |-> i]

RefTerm(s, i) ==
    LET f == RefFactor(s, i)
    IN  IF f.ok THEN RefTermRest(s, f.value, f.next) ELSE RefFail

RefExprRest(s, lhs, i) ==
    IF i <= Len(s) /\ s[i] \in {"+", "-"}
    THEN LET t == RefTerm(s, i + 1)
         IN  IF ~t.ok THEN RefFail
             ELSE RefExprRest(s, IF s[i] = "+" THEN FAdd(lhs, t.value)
                                 ELSE FSub(lhs, t.value), t.next)
    ELSE [ok |-> TRUE, value |-> lhs, next |-> i]

RefExpr(s, i) ==
    LET t == RefTerm(s, i)
    IN  IF t.ok THEN RefExprRest(s, t.value, t.next) ELSE RefFail

\* The value of the whole string s as an infix expression, if it is one.
InfixValue(s) ==
    LET e == RefExpr(s, 1)
    IN  IF e.ok /\ e.next = Len(s) + 1 THEN e ELSE RefFail

\* Numeric equality of two f32 values (+0 equals -0).
SameValue(a, b) == a = b \/ (IsZero(a) /\ IsZero(b))

(***************************************************************************)
(* Properties                                                              *)
(***************************************************************************)
\* try_from has returned.
Returned == pc \in {"err", "built", "done", "panic"}
\* try_from has returned Ok.
Accepted == pc \in {"built", "done", "panic"}

CountOperands(toks) == Cardinality({k \in 1..Len(toks) : toks[k].kind = "Operand"})
CountBinary(toks) ==
    Cardinality({k \in 1..Len(toks) : toks[k].kind = "Operator"
                                      /\ toks[k].op \in {Add, Substract, Multiply, Divide}})

\* C1: for every accepted input, calculate() returns the value of the
\* whitespace-stripped expression under standard infix arithmetic ('*' and
\* '/' bind tighter than '+' and '-', equal precedence left to right,
\* parentheses group, a unary minus negates its operand).
C1_RoundTrip ==
    pc = "done" => /\ InfixValue(input).ok
                   /\ SameValue(result.value, InfixValue(input).value)

\* C2: for every accepted input the token sequence has exactly one more
\* Operand than binary Operator tokens, so exactly one value is on the value
\* stack when the scan of the tokens ends (none is left once the result has
\* been popped).
C2_OneMoreOperand ==
    /\ Accepted => CountOperands(tokens) = CountBinary(tokens) + 1
    /\ pc = "done" => value_stack = <<>>

\* C3: calculate() never panics on a program produced by try_from: every
\* Operator token is a binary operator evaluated with at least two values on
\* the value stack, and the final pop finds a value.
C3_NoPanic ==
    /\ pc # "panic"
    /\ result.status # Panic
    /\ (pc = "built" /\ tpos <= Len(tokens) /\ tokens[tpos].kind = "Operator")
          => /\ Len(value_stack) >= 2
             /\ tokens[tpos].op \in {Add, Substract, Multiply, Divide}
    /\ (pc = "built" /\ tpos > Len(tokens)) => value_stack # <<>>

\* An accepted program with two operators has been evaluated to the end.
C3_Witness ==
    /\ pc = "done"
    /\ CountBinary(tokens) >= 2
    /\ result.status = "Value"

\* Number of '(' minus number of ')' among the first k characters of s.
ParenthesesBalance(s, k) ==
    Cardinality({j \in 1..k : s[j] = "("}) - Cardinality({j \in 1..k : s[j] = ")"})

\* The counts of '(' and ')' differ, or some ')' comes before its '('.
Unbalanced(s) ==
    \/ ParenthesesBalance(s, Len(s)) # 0
    \/ \E k \in 1..Len(s) : ParenthesesBalance(s, k) < 0

\* s ends with an operator or '(' or starts with ')', '+', '*' or '/'.
EndsOrStartsBadly(s) ==
    /\ s # <<>>
    /\ \/ s[Len(s)] \in {"(", "-", "+", "*", "/"}
       \/ s[1] \in {")", "+", "*", "/"}

\* C4 as claimed: every input with unbalanced parentheses is answered with
\* Err(ParenthesesNotMatching).
C4_Original ==
    (Returned /\ Unbalanced(raw)) => outcome = ParenthesesNotMatching

\* C4 as amended: every input with unbalanced parentheses is rejected, with
\* ParenthesesNotMatching unless its stripped form ends with an operator or
\* '(' or starts with ')', '+', '*' or '/', and with InvalidInput then.
C4_Amended ==
    (Returned /\ Unbalanced(raw)) =>
        /\ pc = "err"
        /\ outcome = IF EndsOrStartsBadly(input) THEN InvalidInput
                     ELSE ParenthesesNotMatching

\* Both kinds of mismatch have been answered with ParenthesesNotMatching.
C4_Witness ==
    /\ pc = "err"
    /\ outcome = ParenthesesNotMatching
    /\ ParenthesesBalance(input, Len(input)) # 0
    /\ \E k \in 1..Len(input) : ParenthesesBalance(input, k) < 0

\* The inputs whose parentheses match: the validator's parentheses rule
\* cannot answer for them.
InitBalanced ==
    /\ pc = "start"
    /\ raw \in {s \in Strings(Alphabet, MaxLen) : ~Unbalanced(s)}
    /\ InitLocals

SpecBalanced == InitBalanced /\ [][Next]_vars

DigitAfterClosing(s) == \E k \in 2..Len(s) : s[k - 1] = ")" /\ is_ascii_digit(s[k])

\* C5: every input in which a digit immediately follows ')' is answered with
\* Err(InvalidInput), never with an Ok program.
C5_DigitAfterClosing ==
    (Returned /\ DigitAfterClosing(input)) => (pc = "err" /\ outcome = InvalidInput)

\* '+', '*', '/' or ')' is the first character of s or comes immediately
\* after one of '+', '-', '*', '/', '('.
OperatorMisplaced(s) ==
    /\ s # <<>>
    /\ \/ s[1] \in {"+", "*", "/", ")"}
       \/ \E k \in 2..Len(s) : /\ s[k] \in {"+", "*", "/", ")"}
                               /\ s[k - 1] \in {"+", "-", "*", "/", "("}

\* C6: an input with a misplaced '+', '*', '/' or ')' is never accepted, and
\* is answered with InvalidInput when its parentheses are balanced.
C6_OperatorMisplaced ==
    (Returned /\ OperatorMisplaced(input)) =>
        /\ pc = "err"
        /\ outcome \in {InvalidInput, ParenthesesNotMatching}
        /\ ~Unbalanced(input) => outcome = InvalidInput

\* The validator let a misplaced operator through and the conversion loop
\* rejected it.
C6_Witness ==
    /\ pc = "err"
    /\ outcome = InvalidInput
    /\ OperatorMisplaced(input)
    /\ \E k \in 2..Len(input) : input[k] \in {"+", "*", "/"} /\ input[k - 1] \in {"+", "-", "*", "/"}
    /\ validate_infix_notation(input) = OK

\* C7: an input whose stripped form ends with '+', '-', '*', '/' or '(' is
\* answered with Err(InvalidInput), whatever else it contains.
C7_TrailingOperator ==
    (Returned /\ input # <<>> /\ input[Len(input)] \in {"+", "-", "*", "/", "("})
        => (pc = "err" /\ outcome = InvalidInput)

\* A trailing '(' in an input with an unsupported character and unbalanced
\* parentheses has been answered with InvalidInput.
C7_Witness ==
    /\ pc = "err"
    /\ outcome = InvalidInput
    /\ input # <<>>
    /\ input[Len(input)] = "("
    /\ Unbalanced(input)
    /\ \E k \in 1..Len(input) : input[k] = "x"

\* An optional single leading '-' followed by one or more ASCII digits.
WellFormedNumber(text) ==
    LET digits == IF text # <<>> /\ text[1] = "-" THEN Tail(text) ELSE text
    IN  digits # <<>> /\ \A k \in 1..Len(digits) : is_ascii_digit(digits[k])

SignedValue(text) ==
    IF text[1] = "-" THEN 0 - DigitsValue(Tail(text)) ELSE DigitsValue(text)

\* C8: parse_number returns Ok(n) only for an optional single leading '-'
\* followed by one or more digits, n being the signed value, and
\* Err(InvalidInput) for every other text.
C8_ParseNumber ==
    pc = "parsed" =>
        /\ parsed.ok => (WellFormedNumber(raw) /\ parsed.value = SignedValue(raw))
        /\ ~WellFormedNumber(raw) => (~parsed.ok /\ parsed.err = InvalidInput)

InsertAt(s, p, c) == SubSeq(s, 1, p) \o <<c>> \o SubSeq(s, p + 1, Len(s))
RemoveAt(s, p) == SubSeq(s, 1, p - 1) \o SubSeq(s, p + 1, Len(s))

\* The inputs obtained from s by inserting or removing one whitespace
\* character.
WhitespaceVariants(s) ==
    {InsertAt(s, p, " ") : p \in 0..Len(s)}
        \cup {RemoveAt(s, p) : p \in {k \in 1..Len(s) : s[k] \in Whitespace}}

\* C9: inserting or removing whitespace changes neither the error, nor the
\* token sequence, nor the result; an input of whitespace only is answered
\* with Err(InvalidInput).
C9_Whitespace ==
    /\ Returned => \A v \in WhitespaceVariants(raw) :
                      /\ try_from(v).res = outcome
                      /\ Accepted => try_from(v).tokens = tokens
    /\ pc = "done" => \A v \in WhitespaceVariants(raw) :
                         calculate(try_from(v).tokens) = [ok |-> TRUE, value |-> result.value]
    /\ (Returned /\ \A k \in 1..Len(raw) : raw[k] \in Whitespace)
          => (pc = "err" /\ outcome = InvalidInput)

\* An input with whitespace between two of its tokens has been evaluated.
C9_Witness ==
    /\ pc = "done"
    /\ \E k \in 2..(Len(raw) - 1) : /\ raw[k] \in Whitespace
                                    /\ raw[k - 1] \notin Whitespace
                                    /\ raw[k + 1] \notin Whitespace
    /\ CountBinary(tokens) >= 1

AllDigits(s) == s # <<>> /\ \A k \in 1..Len(s) : is_ascii_digit(s[k])

\* C10: a single digit is answered with Err(InvalidInput), although the same
\* digit in parentheses and a number of two or more digits (within the range
\* of i32) are accepted as that one operand.
C10_SingleDigit ==
    /\ (Returned /\ Len(input) = 1 /\ is_ascii_digit(input[1]))
          => (pc = "err" /\ outcome = InvalidInput)
    /\ (Returned /\ Len(input) = 3 /\ input[1] = "(" /\ is_ascii_digit(input[2])
                 /\ input[3] = ")")
          => (Accepted /\ tokens = <<Operand(DigitVal(input[2]))>>)
    /\ (Returned /\ Len(input) >= 2 /\ AllDigits(input) /\ DigitsValue(input) >= 0)
          => (Accepted /\ tokens = <<Operand(DigitsValue(input))>>)

\* A single digit, surrounded by whitespace, has been rejected.
C10_Witness ==
    /\ pc = "err"
    /\ outcome = InvalidInput
    /\ Len(input) = 1
    /\ is_ascii_digit(input[1])
    /\ Len(raw) > 1

\* The inputs -(a op b): a unary minus immediately before a parenthesised
\* sub-expression of two operands.
InitNegated ==
    /\ pc = "start"
    /\ raw \in {<<"-", "(", a, o, b, ")">> : a \in {"1", "2"}, b \in {"1", "2"},
                                             o \in {"+", "-", "*", "/"}}
    /\ InitLocals

SpecNegated == InitNegated /\ [][Next]_vars

\* s is -(E) for an infix expression E.
NegatedParenthesis(s) ==
    /\ Len(s) >= 4
    /\ s[1] = "-"
    /\ s[2] = "("
    /\ s[Len(s)] = ")"
    /\ InfixValue(SubSeq(s, 3, Len(s) - 1)).ok

\* C11: a unary minus immediately before a parenthesised sub-expression, as
\* in -(a+b), makes the program evaluate to the negation of the value of the
\* whole sub-expression.
C11_NegatedParenthesis ==
    (pc = "done" /\ NegatedParenthesis(input)) =>
        SameValue(result.value, FNeg(InfixValue(SubSeq(input, 3, Len(input) - 1)).value))

\* C12: what validate_infix_notation accepts, the conversion loop accepts:
\* once validation has succeeded, try_from does not return an error, and
\* check_operator_char_order does not answer InvalidInput for any character
\* the loop hands to it.
C12_ValidatedIsConverted ==
    /\ pc = "err" => validate_infix_notation(input) # OK
    /\ (pc = "scan" /\ pos <= Len(input)
          /\ ~is_minus_unary_operator(input[pos], previous_char)
          /\ ~is_numeric(input[pos]))
          => check_operator_char_order(input[pos], previous_char) = OK

CountOnStack(stack, o) == Cardinality({k \in 1..Len(stack) : stack[k] = o})

\* C13: the token sequence of an accepted input has no parenthesis token;
\* during the conversion no ')' is on the operator stack, the stack holds one
\* '(' for every parenthesis that is open, so it holds a '(' whenever ')' is
\* the next character, and none when the final drain runs.
C13_NoParenthesisToken ==
    /\ Accepted => \A k \in 1..Len(tokens) :
                      tokens[k].op \notin {LeftParenthesis, RightParenthesis}
    /\ pc = "scan" =>
          /\ CountOnStack(operator_stack, RightParenthesis) = 0
          /\ CountOnStack(operator_stack, LeftParenthesis) = ParenthesesBalance(input, pos - 1)
          /\ (pos <= Len(input) /\ input[pos] = ")")
                => CountOnStack(operator_stack, LeftParenthesis) >= 1
          /\ pos > Len(input) => CountOnStack(operator_stack, LeftParenthesis) = 0

\* A parenthesised operation has been converted and evaluated.
C13_Witness ==
    /\ pc = "done"
    /\ \E k \in 1..Len(input) : input[k] = "("
    /\ CountBinary(tokens) >= 1

BinaryOperators == {Add, Substract, Multiply, Divide}

Reverse(s) == [k \in 1..Len(s) |-> s[Len(s) + 1 - k]]

\* Index of the topmost '(' on the stack, 0 if there is none.
TopLeftParenthesis(stack) ==
    IF CountOnStack(stack, LeftParenthesis) = 0 THEN 0
    ELSE CHOOSE k \in 1..Len(stack) :
            /\ stack[k] = LeftParenthesis
            /\ \A j \in (k + 1)..Len(stack) : stack[j] # LeftParenthesis

\* The operators above the topmost '(' (the whole stack if there is none).
TopLevel(stack) == SubSeq(stack, TopLeftParenthesis(stack) + 1, Len(stack))

\* The operators of the top level whose precedence is at least that of o, in
\* pop order, as tokens.
MovedToOutput(stack, o) ==
    LET moved == SelectSeq(TopLevel(stack), LAMBDA x : precedence(x) >= precedence(o))
    IN  [k \in 1..Len(moved) |-> OperatorToken(Reverse(moved)[k])]

\* What stays on the stack when o is read.
KeptOnStack(stack, o) ==
    SubSeq(stack, 1, TopLeftParenthesis(stack))
        \o SelectSeq(TopLevel(stack), LAMBDA x : precedence(x) < precedence(o))

\* s is a op1 b op2 c: three digits and two binary operators.
TwoOperations(s) ==
    /\ Len(s) = 5
    /\ is_ascii_digit(s[1]) /\ is_ascii_digit(s[3]) /\ is_ascii_digit(s[5])
    /\ s[2] \in {"+", "-", "*", "/"}
    /\ s[4] \in {"+", "-", "*", "/"}

\* The step that reads a binary operator while a binary operator is on top
\* of the stack.
ReadsOperatorOverOperator ==
    /\ pc = "scan" /\ pc' = "scan"
    /\ pos <= Len(input)
    /\ input[pos] \in {"+", "-", "*", "/"}
    /\ ~is_minus_unary_operator(input[pos], previous_char)
    /\ operator_stack # <<>>
    /\ Last(operator_stack) \in BinaryOperators

InitCalc ==
    /\ pc = "built"
    /\ raw = <<>>
    /\ input = <<>>
    /\ pos = 1
    /\ parsing_number = <<>>
    /\ previous_char = None
    /\ operator_stack = <<>>
    /\ rpn_container = <<>>
    /\ is_next_expression_negative = FALSE
    /\ outcome = OK
    /\ tokens \in {<<Operand(a), Operand(b), OperatorToken(o)>> :
                      a \in (0 - MaxOperand)..MaxOperand,
                      b \in (0 - MaxOperand)..MaxOperand,
                      o \in {Add, Substract, Multiply, Divide}}
    /\ tpos = 1
    /\ value_stack = <<>>
    /\ result = NoResult
    /\ parsed = NotParsed

NextCalc ==
    \/ CalculateOperand
    \/ CalculateOperator
    \/ CalculateReturn

SpecCalc == InitCalc /\ [][NextCalc]_vars

\* The f32 quotient a / b of two integers.
Quotient(a, b) ==
    IF b # 0 THEN (IF a = 0 THEN Zero(1) ELSE Fraction(a, b))
    ELSE IF a > 0 THEN Inf(1)
    ELSE IF a < 0 THEN Inf(0 - 1)
    ELSE NaN

\* C15: the value popped first is the right operand, the value popped second
\* the left one: [a, b, Substract] evaluates to a - b and [a, b, Divide] to
\* a / b.
C15_OperandOrder ==
    (pc = "done" /\ Len(tokens) = 3 /\ tokens[1].kind = "Operand"
        /\ tokens[2].kind = "Operand" /\ tokens[3].kind = "Operator") =>
        /\ tokens[3].op = Substract
              => SameValue(result.value, FromI32(tokens[1].value - tokens[2].value))
        /\ tokens[3].op = Divide
              => SameValue(result.value, Quotient(tokens[1].value, tokens[2].value))

\* [1, 2, Divide] has been evaluated to 1/2.
C15_Witness ==
    /\ pc = "done"
    /\ tokens = <<Operand(1), Operand(2), OperatorToken(Divide)>>
    /\ result.value = [n |-> 1, d |-> 2]

\* C16: during the conversion of a validated input, binary operators that
\* are neighbours on the operator stack (no '(' between them) have strictly
\* increasing precedence from bottom to top, so no three of them are
\* neighbours and the stack is at most 3 times the number of open
\* parentheses plus 2 high.
C16_StackOrder ==
    pc = "scan" =>
        /\ \A k \in 1..(Len(operator_stack) - 1) :
              (operator_stack[k] \in BinaryOperators
                  /\ operator_stack[k + 1] \in BinaryOperators)
                  => precedence(operator_stack[k]) < precedence(operator_stack[k + 1])
        /\ \A k \in 1..(Len(operator_stack) - 2) :
              ~(/\ operator_stack[k] \in BinaryOperators
                /\ operator_stack[k + 1] \in BinaryOperators
                /\ operator_stack[k + 2] \in BinaryOperators)
        /\ Len(operator_stack) <= 3 * ParenthesesBalance(input, pos - 1) + 2

\* Two binary operators are on one level of the stack, which is as high as
\* the bound allows.
C16_Witness ==
    /\ pc = "scan"
    /\ Len(operator_stack) >= 2
    /\ operator_stack[Len(operator_stack)] \in BinaryOperators
    /\ operator_stack[Len(operator_stack) - 1] \in BinaryOperators
    /\ Len(operator_stack) = 3 * ParenthesesBalance(input, pos - 1) + 2

\* The values of the maximal digit runs of s from index i on, left to right.
RECURSIVE DigitRunsFrom(_, _)
DigitRunsFrom(s, i) ==
    IF i > Len(s) THEN <<>>
    ELSE IF is_ascii_digit(s[i])
    THEN <<DigitsValue(SubSeq(s, i, DigitRunEnd(s, i) - 1))>>
             \o DigitRunsFrom(s, DigitRunEnd(s, i))
    ELSE DigitRunsFrom(s, i + 1)

DigitRuns(s) == DigitRunsFrom(s, 1)

\* The magnitudes of the Operand tokens of toks, in order.
OperandMagnitudes(toks) ==
    LET operands == SelectSeq(toks, LAMBDA t : t.kind = "Operand")
    IN  [k \in 1..Len(operands) |-> Abs(operands[k].value)]

\* The step that processes the non-digit character ending a digit run.
EndsDigitRun ==
    /\ pc = "scan" /\ pc' = "scan"
    /\ pos <= Len(input)
    /\ ~is_ascii_digit(input[pos])
    /\ parsing_number # <<>>

\* C17: the Operand tokens of an accepted input are the maximal digit runs
\* of the stripped input, one Operand per run and in the same order; during
\* the scan the output holds the runs that have ended and parsing_number the
\* one that has not, and the step that processes the character ending a run
\* puts the Operand in the output before anything else.
C17_OperandOrder ==
    /\ [](Accepted => OperandMagnitudes(tokens) = DigitRuns(input))
    /\ [](pc = "scan" =>
            LET runs == DigitRuns(SubSeq(input, 1, pos - 1))
            IN  IF pos > 1 /\ is_ascii_digit(input[pos - 1])
                THEN /\ parsing_number # <<>>
                     /\ DigitsValue(SelectSeq(parsing_number, is_ascii_digit))
                           = runs[Len(runs)]
                     /\ OperandMagnitudes(rpn_container) = SubSeq(runs, 1, Len(runs) - 1)
                ELSE /\ parsing_number = <<>>
                     /\ OperandMagnitudes(rpn_container) = runs)
    /\ [][EndsDigitRun =>
            /\ parsing_number' = <<>>
            /\ Len(rpn_container') > Len(rpn_container)
            /\ rpn_container'[Len(rpn_container) + 1]
                  = Operand(parse_number(parsing_number).value)]_vars

\* An input with two digit runs, the first of two digits, has been evaluated.
C17_Witness ==
    /\ pc = "done"
    /\ Len(DigitRuns(input)) >= 2
    /\ DigitRuns(input)[1] > 9
    /\ DigitRuns(input)[1] # DigitRuns(input)[2]

====
